---- MODULE Spec2Model ----
(***************************************************************************)
(* Model of the Mandelbrot explorer's event loop (src/src/lib.rs): the     *)
(* view state held in State::mandelbrot_uniform, the GPU uniform buffer,   *)
(* the surface configuration, the cursor/drag state and the handlers       *)
(* State::input, State::resize, State::update_uniform, State::render and   *)
(* the closure passed to EventLoop::run.                                   *)
(*                                                                         *)
(* f64 values are IEEE-754 binary64 numbers, computed with round-to-       *)
(* nearest-even as the hardware does.  TLC's integers are 32 bits wide, so *)
(* significands and the u32 iteration counter are naturals written as      *)
(* little-endian sequences of 14-bit limbs.                                *)
(***************************************************************************)
EXTENDS Integers, Sequences, FiniteSets, TLC

(***************************************************************************)
(* Naturals of any size: little-endian limb sequences, no leading zero     *)
(* limb, zero is the empty sequence.                                       *)
(***************************************************************************)
LimbBase == 16384
LimbBits == 14

MaxOf(x, y) == IF x >= y THEN x ELSE y
MinOf(x, y) == IF x <= y THEN x ELSE y

RECURSIVE BTrim(_)
BTrim(a) ==
    IF a = << >> THEN a
    ELSE IF a[Len(a)] = 0 THEN BTrim(SubSeq(a, 1, Len(a) - 1))
    ELSE a

BLimb(a, i) == IF i >= 1 /\ i <= Len(a) THEN a[i] ELSE 0

\* n in 0 .. 2^31-1
BFromInt(n) ==
    BTrim(<< n % LimbBase, (n \div LimbBase) % LimbBase, n \div (LimbBase * LimbBase) >>)

RECURSIVE BCmpFrom(_, _, _)
BCmpFrom(a, b, i) ==
    IF i = 0 THEN 0
    ELSE IF BLimb(a, i) > BLimb(b, i) THEN 1
    ELSE IF BLimb(a, i) < BLimb(b, i) THEN -1
    ELSE BCmpFrom(a, b, i - 1)

\* -1, 0, 1 as a < b, a = b, a > b
BCmp(a, b) == BCmpFrom(a, b, MaxOf(Len(a), Len(b)))

RECURSIVE BAddFrom(_, _, _, _)
BAddFrom(a, b, i, c) ==
    IF i > MaxOf(Len(a), Len(b))
    THEN IF c = 0 THEN << >> ELSE << c >>
    ELSE LET s == BLimb(a, i) + BLimb(b, i) + c
         IN  << s % LimbBase >> \o BAddFrom(a, b, i + 1, s \div LimbBase)

BAdd(a, b) == BAddFrom(a, b, 1, 0)

RECURSIVE BSubFrom(_, _, _, _)
BSubFrom(a, b, i, c) ==
    IF i > Len(a) THEN << >>
    ELSE LET s == BLimb(a, i) - BLimb(b, i) - c
         IN  IF s < 0
             THEN << s + LimbBase >> \o BSubFrom(a, b, i + 1, 1)
             ELSE << s >> \o BSubFrom(a, b, i + 1, 0)

\* a - b for a >= b
BSub(a, b) == BTrim(BSubFrom(a, b, 1, 0))

RECURSIVE BMulLimbFrom(_, _, _, _)
BMulLimbFrom(a, d, i, c) ==
    IF i > Len(a)
    THEN IF c = 0 THEN << >> ELSE << c >>
    ELSE LET s == a[i] * d + c
         IN  << s % LimbBase >> \o BMulLimbFrom(a, d, i + 1, s \div LimbBase)

\* a * d for one limb d < LimbBase
BMulLimb(a, d) == IF d = 0 THEN << >> ELSE BMulLimbFrom(a, d, 1, 0)

Zeros(n) == [i \in 1..n |-> 0]

RECURSIVE BMulFrom(_, _, _)
BMulFrom(a, b, j) ==
    IF j > Len(b) THEN << >>
    ELSE BAdd(IF b[j] = 0 THEN << >> ELSE Zeros(j - 1) \o BMulLimb(a, b[j]),
              BMulFrom(a, b, j + 1))

BMul(a, b) == IF a = << >> \/ b = << >> THEN << >> ELSE BMulFrom(a, b, 1)

\* a * 2^k
BShl(a, k) ==
    IF a = << >> THEN a
    ELSE Zeros(k \div LimbBits) \o BMulLimb(a, 2 ^ (k % LimbBits))

RECURSIVE BDivSmallFrom(_, _, _, _)
BDivSmallFrom(a, d, i, r) ==
    IF i = 0 THEN [q |-> << >>, r |-> r]
    ELSE LET cur  == r * LimbBase + a[i]
             rest == BDivSmallFrom(a, d, i - 1, cur % d)
         IN  [q |-> rest.q \o << cur \div d >>, r |-> rest.r]

\* quotient and remainder of a by d, 0 < d < 2^16
BDivSmall(a, d) ==
    LET x == BDivSmallFrom(a, d, Len(a), 0)
    IN  [q |-> BTrim(x.q), r |-> x.r]

\* floor(a / 2^k)
BShr(a, k) ==
    IF k \div LimbBits >= Len(a) THEN << >>
    ELSE BDivSmall(SubSeq(a, (k \div LimbBits) + 1, Len(a)), 2 ^ (k % LimbBits)).q

RECURSIVE IntBitLen(_)
IntBitLen(n) == IF n = 0 THEN 0 ELSE 1 + IntBitLen(n \div 2)

BBitLen(a) == IF a = << >> THEN 0 ELSE LimbBits * (Len(a) - 1) + IntBitLen(a[Len(a)])

RECURSIVE IntTrailingZeros(_)
IntTrailingZeros(n) == IF n % 2 = 1 THEN 0 ELSE 1 + IntTrailingZeros(n \div 2)

RECURSIVE BTrailingZerosFrom(_, _)
BTrailingZerosFrom(a, i) ==
    IF a[i] = 0 THEN LimbBits + BTrailingZerosFrom(a, i + 1)
    ELSE IntTrailingZeros(a[i])

\* number of trailing zero bits of a > 0
BTrailingZeros(a) == BTrailingZerosFrom(a, 1)

BOdd(a) == BLimb(a, 1) % 2 = 1

RECURSIVE BDigitSearch(_, _, _, _)
\* the largest digit q in lo..hi with d * q <= r (d * lo <= r is given)
BDigitSearch(r, d, lo, hi) ==
    IF lo = hi THEN lo
    ELSE LET mid == (lo + hi + 1) \div 2
         IN  IF BCmp(BMulLimb(d, mid), r) <= 0
             THEN BDigitSearch(r, d, mid, hi)
             ELSE BDigitSearch(r, d, lo, mid - 1)

RECURSIVE BDivLongFrom(_, _, _, _)
BDivLongFrom(a, d, i, r) ==
    IF i = 0 THEN [q |-> << >>, r |-> r]
    ELSE LET cur  == BTrim(<< a[i] >> \o r)
             qd   == BDigitSearch(cur, d, 0, LimbBase - 1)
             rest == BDivLongFrom(a, d, i - 1, BSub(cur, BMulLimb(d, qd)))
         IN  [q |-> rest.q \o << qd >>, r |-> rest.r]

\* quotient and remainder of a by d > 0: short division when d is one limb,
\* long division limb by limb otherwise
BDivMod(a, d) ==
    IF Len(d) = 1 THEN LET x == BDivSmall(a, d[1]) IN [q |-> x.q, r |-> BFromInt(x.r)]
    ELSE LET y == BDivLongFrom(a, d, Len(a), << >>) IN [q |-> BTrim(y.q), r |-> y.r]

(***************************************************************************)
(* IEEE-754 binary64.  A finite number is (-1)^neg * m * 2^e with m a      *)
(* natural below 2^53; kept canonical: 2^52 <= m and -1074 <= e <= 971     *)
(* (normal), or m < 2^52 and e = -1074 (subnormal and zero).               *)
(***************************************************************************)
F64SigBits == 53
F64MinExp == -1074
F64MaxExp == 971

F64Zero(neg) == [k |-> "fin", neg |-> neg, m |-> << >>, e |-> F64MinExp]
F64Inf(neg) == [k |-> "inf", neg |-> neg, m |-> << >>, e |-> 0]
F64NaN == [k |-> "nan", neg |-> FALSE, m |-> << >>, e |-> 0]

F64IsZero(a) == a.k = "fin" /\ a.m = << >>

\* Round m * 2^e (plus, when sticky, a positive amount below one unit of m)
\* to the nearest number with sig significand bits and exponents emin..emax,
\* ties to even.
FloatRound(sig, emin, emax, neg, m, e, sticky) ==
    IF m = << >> THEN [k |-> "fin", neg |-> neg, m |-> << >>, e |-> emin]
    ELSE
    LET L   == BBitLen(m)
        e0  == e + (L - sig)
        sh  == IF e0 < emin THEN (L - sig) + (emin - e0) ELSE L - sig
        er  == e + sh
    IN  IF sh <= 0
        THEN IF er > emax THEN [k |-> "inf", neg |-> neg, m |-> << >>, e |-> 0]
             ELSE [k |-> "fin", neg |-> neg, m |-> BShl(m, 0 - sh), e |-> er]
        ELSE IF sh > L + 1 THEN [k |-> "fin", neg |-> neg, m |-> << >>, e |-> emin]
        ELSE
        LET q    == BShr(m, sh)
            rem  == BSub(m, BShl(q, sh))
            c    == BCmp(rem, BShl(<< 1 >>, sh - 1))
            up   == c > 0 \/ (c = 0 /\ (sticky \/ BOdd(q)))
            q1   == IF up THEN BAdd(q, << 1 >>) ELSE q
            over == BBitLen(q1) > sig
            m2   == IF over THEN BShr(q1, 1) ELSE q1
            e2   == IF over THEN er + 1 ELSE er
        IN  IF e2 > emax THEN [k |-> "inf", neg |-> neg, m |-> << >>, e |-> 0]
            ELSE IF m2 = << >> THEN [k |-> "fin", neg |-> neg, m |-> << >>, e |-> emin]
            ELSE [k |-> "fin", neg |-> neg, m |-> m2, e |-> e2]

F64Round(neg, m, e, sticky) == FloatRound(F64SigBits, F64MinExp, F64MaxExp, neg, m, e, sticky)

\* a small integer as a binary64 (exact)
F64FromInt(n) == F64Round(n < 0, BFromInt(IF n < 0 THEN 0 - n ELSE n), 0, FALSE)

F64Neg(a) == IF a.k = "nan" THEN a ELSE [a EXCEPT !.neg = ~a.neg]

F64Mul(a, b) ==
    IF a.k = "nan" \/ b.k = "nan" THEN F64NaN
    ELSE IF a.k = "inf" \/ b.k = "inf"
         THEN IF F64IsZero(a) \/ F64IsZero(b) THEN F64NaN ELSE F64Inf(a.neg # b.neg)
    ELSE F64Round(a.neg # b.neg, BMul(a.m, b.m), a.e + b.e, FALSE)

\* a / b for finite nonzero a and b: the divisor's trailing zero bits go to the
\* exponent, the dividend is scaled to leave at least 56 quotient bits, and the
\* remainder is the sticky bit
F64DivFinite(a, b) ==
    LET t   == BTrailingZeros(b.m)
        d   == BShr(b.m, t)
        k   == MaxOf(0, 56 + BBitLen(d) - BBitLen(a.m))
        x   == BDivMod(BShl(a.m, k), d)
    IN  F64Round(a.neg # b.neg, x.q, a.e - k - (b.e + t), x.r # << >>)

F64Div(a, b) ==
    IF a.k = "nan" \/ b.k = "nan" THEN F64NaN
    ELSE IF a.k = "inf" THEN IF b.k = "inf" THEN F64NaN ELSE F64Inf(a.neg # b.neg)
    ELSE IF b.k = "inf" THEN F64Zero(a.neg # b.neg)
    ELSE IF F64IsZero(b) THEN IF F64IsZero(a) THEN F64NaN ELSE F64Inf(a.neg # b.neg)
    ELSE IF F64IsZero(a) THEN F64Zero(a.neg # b.neg)
    ELSE F64DivFinite(a, b)

\* a + b for finite nonzero a and b.  An operand more than 64 binary places
\* below the other is under a quarter of its last place and rounds away.
F64AddFinite(a, b) ==
    IF a.e - b.e > 64 THEN a
    ELSE IF b.e - a.e > 64 THEN b
    ELSE
    LET e  == MinOf(a.e, b.e)
        ma == BShl(a.m, a.e - e)
        mb == BShl(b.m, b.e - e)
        c  == BCmp(ma, mb)
    IN  IF a.neg # b.neg /\ c = 0 THEN F64Zero(FALSE)
        ELSE F64Round(IF c >= 0 THEN a.neg ELSE b.neg,
                      IF a.neg = b.neg THEN BAdd(ma, mb)
                      ELSE IF c > 0 THEN BSub(ma, mb) ELSE BSub(mb, ma),
                      e, FALSE)

F64Add(a, b) ==
    IF a.k = "nan" \/ b.k = "nan" THEN F64NaN
    ELSE IF a.k = "inf"
         THEN IF b.k = "inf" /\ a.neg # b.neg THEN F64NaN ELSE a
    ELSE IF b.k = "inf" THEN b
    ELSE IF F64IsZero(a) THEN IF F64IsZero(b) THEN F64Zero(a.neg /\ b.neg) ELSE b
    ELSE IF F64IsZero(b) THEN a
    ELSE F64AddFinite(a, b)

F64Sub(a, b) == F64Add(a, F64Neg(b))

\* a > 0.0, as the comparison operator of f64 (false for NaN)
F64GtZero(a) == a.k # "nan" /\ ~a.neg /\ ~F64IsZero(a)

\* a < 0.0
F64LtZero(a) == a.k # "nan" /\ a.neg /\ ~F64IsZero(a)

(***************************************************************************)
(* Conversions and the u32 iteration counter.                              *)
(***************************************************************************)
F32SigBits == 24
F32MinExp == -149
F32MaxExp == 104

\* a small integer as an f32 (the type of MouseScrollDelta::LineDelta's fields)
F32FromInt(n) ==
    FloatRound(F32SigBits, F32MinExp, F32MaxExp, n < 0,
               BFromInt(IF n < 0 THEN 0 - n ELSE n), 0, FALSE)

\* `*y as f64`: every f32 is a binary64, renormalised to 53 bits
F32ToF64(y) == IF y.k = "fin" THEN F64Round(y.neg, y.m, y.e, FALSE) ELSE y

\* `n as f64` for a u32 n (here always below 2^31): exact
U32ToF64(n) == F64Round(FALSE, BFromInt(n), 0, FALSE)

U32Modulus == BShl(<< 1 >>, 32)

\* a + b does not fit in 32 bits
U32AddOverflows(a, b) == BCmp(BAdd(a, b), U32Modulus) >= 0

\* a + b modulo 2^32
U32WrappingAdd(a, b) ==
    IF U32AddOverflows(a, b) THEN BSub(BAdd(a, b), U32Modulus) ELSE BAdd(a, b)

\* u32::saturating_sub
U32SaturatingSub(a, b) == IF BCmp(a, b) >= 0 THEN BSub(a, b) ELSE << >>

\* Ord::max on u32
U32Max(a, b) == IF BCmp(a, b) >= 0 THEN a ELSE b

(***************************************************************************)
(* Program constants.                                                      *)
(***************************************************************************)
IterStep == 128
InitIterations == 128
InitWidth == 800
InitHeight == 600
ZoomDivisor == 10

(***************************************************************************)
(* Bounds of the model and the inputs events are drawn from.               *)
(***************************************************************************)
\* events that change the view (pan, zoom, iteration key, resize to a new
\* non-zero size) handled in one run
MaxViewOps == 2

Positions ==
    { [x |-> F64FromInt(0), y |-> F64FromInt(0)],
      [x |-> F64FromInt(400), y |-> F64FromInt(300)] }

WheelDeltas ==
    { [unit |-> "LineDelta", y |-> F32FromInt(1)],
      [unit |-> "LineDelta", y |-> F32FromInt(10)],
      [unit |-> "PixelDelta", y |-> F64FromInt(-5)] }

Sizes ==
    { [width |-> 640, height |-> 400],
      [width |-> 0, height |-> 600],
      [width |-> 800, height |-> 0] }

MouseClicks ==
    { [state |-> "Pressed", button |-> "Left"],
      [state |-> "Released", button |-> "Left"],
      [state |-> "Pressed", button |-> "Right"] }
ArrowKeys == {"ArrowUp", "ArrowDown"}
\* key events State::input does not handle; `repeat` is KeyEvent::repeat, which
\* winit sets and no pattern of the program reads
OtherKeys ==
    { [state |-> "Released", key |-> "ArrowUp", repeat |-> FALSE],
      [state |-> "Released", key |-> "ArrowDown", repeat |-> FALSE],
      [state |-> "Pressed", key |-> "Escape", repeat |-> FALSE],
      [state |-> "Pressed", key |-> "Escape", repeat |-> TRUE] }
SurfaceErrors == {"Timeout", "Lost", "OutOfMemory"}

(***************************************************************************)
(* State.                                                                  *)
(***************************************************************************)
VARIABLES
    mandelbrot_uniform,  \* State::mandelbrot_uniform: the view
    mandelbrot_buffer,   \* contents of the GPU uniform buffer
    config,              \* State::config: width and height
    surface,             \* what the surface was last configured with
    size,                \* State::size: last known window size
    cursor_pos,          \* State::cursor_pos
    dragging,            \* State::dragging
    redraw_requested,    \* a Window::request_redraw is pending
    control,             \* "running", "exited" (exit was asked), "panicked"
    event,               \* the event the closure handled last
    consumed,            \* what State::input returned for it (<< >>: not called)
    calls,               \* GPU, window and loop calls made while handling it
    view_ops             \* view-changing events handled so far

vars == << mandelbrot_uniform, mandelbrot_buffer, config, surface, size,
           cursor_pos, dragging, redraw_requested, control, event, consumed,
           calls, view_ops >>

\* State::new, after run has built the 800x600 window
InitNew ==
    /\ size = [width |-> InitWidth, height |-> InitHeight]
    /\ config = [width |-> InitWidth, height |-> InitHeight]
    /\ surface = [width |-> InitWidth, height |-> InitHeight]
    /\ mandelbrot_uniform =
           [min_x |-> F64FromInt(-2), min_y |-> F64FromInt(-1),
            height |-> F64FromInt(2),
            aspect_ratio |-> F64Div(U32ToF64(InitWidth), U32ToF64(InitHeight)),
            max_iterations |-> BFromInt(InitIterations), padding |-> 0]
    /\ mandelbrot_buffer = mandelbrot_uniform
    /\ cursor_pos = [x |-> F64FromInt(0), y |-> F64FromInt(0)]
    /\ dragging = FALSE
    /\ redraw_requested = FALSE
    /\ control = "running"
    /\ event = [kind |-> "Init"]
    /\ consumed = << >>
    /\ calls = << >>
    /\ view_ops = 0

\* the largest value max_iterations takes: 2^32 - 128
HeldIterations == BSub(U32Modulus, BFromInt(IterStep))

\* The state run is in when, after State::new, Arrow-Up has been held down
\* until max_iterations is HeldIterations, just after the last of these
\* Pressed events (33554430 of them, each handled on its own by lines 269-290:
\* it added IterStep, wrote the buffer and requested a redraw).  The held key
\* counts as one view-changing event of the run.
InitHeld ==
    /\ size = [width |-> InitWidth, height |-> InitHeight]
    /\ config = [width |-> InitWidth, height |-> InitHeight]
    /\ surface = [width |-> InitWidth, height |-> InitHeight]
    /\ mandelbrot_uniform =
           [min_x |-> F64FromInt(-2), min_y |-> F64FromInt(-1),
            height |-> F64FromInt(2),
            aspect_ratio |-> F64Div(U32ToF64(InitWidth), U32ToF64(InitHeight)),
            max_iterations |-> HeldIterations, padding |-> 0]
    /\ mandelbrot_buffer = mandelbrot_uniform
    /\ cursor_pos = [x |-> F64FromInt(0), y |-> F64FromInt(0)]
    /\ dragging = FALSE
    /\ redraw_requested = TRUE
    /\ control = "running"
    /\ event = [kind |-> "KeyboardInput", state |-> "Pressed", key |-> "ArrowUp",
                repeat |-> TRUE]
    /\ consumed = << TRUE >>
    /\ calls = << "dbg", "write_buffer", "request_redraw" >>
    /\ view_ops = 1

Init == InitNew \/ InitHeld

(***************************************************************************)
(* State::update_uniform, State::resize.  `done` are the calls the handler *)
(* has made before.                                                        *)
(***************************************************************************)
\* mutant: the buffer is written from the view as it was before the handler
update_uniform_stale(done) ==
    /\ mandelbrot_buffer' = mandelbrot_uniform
    /\ redraw_requested' = TRUE
    /\ calls' = done \o << "write_buffer", "request_redraw" >>

update_uniform(done) ==
    /\ mandelbrot_buffer' = mandelbrot_uniform'
    /\ redraw_requested' = TRUE
    /\ calls' = done \o << "write_buffer", "request_redraw" >>

\* mutant: the configuration takes the new width only
resize_width_only(new_size, done) ==
    IF new_size.width > 0 /\ new_size.height > 0
    THEN /\ size' = new_size
         /\ config' = [config EXCEPT !.width = new_size.width]
         /\ surface' = config'
         /\ mandelbrot_uniform' =
                [mandelbrot_uniform EXCEPT
                    !.aspect_ratio = F64Div(U32ToF64(new_size.width),
                                            U32ToF64(new_size.height))]
         /\ update_uniform(done \o << "configure" >>)
    ELSE /\ calls' = done
         /\ UNCHANGED << size, config, surface, mandelbrot_uniform,
                         mandelbrot_buffer, redraw_requested >>

\* mutant: the aspect ratio is divided in u32 and converted afterwards
resize_truncated(new_size, done) ==
    IF new_size.width > 0 /\ new_size.height > 0
    THEN /\ size' = new_size
         /\ config' = [config EXCEPT !.width = new_size.width,
                                     !.height = new_size.height]
         /\ surface' = config'
         /\ mandelbrot_uniform' =
                [mandelbrot_uniform EXCEPT
                    !.aspect_ratio = U32ToF64(new_size.width \div new_size.height)]
         /\ update_uniform(done \o << "configure" >>)
    ELSE /\ calls' = done
         /\ UNCHANGED << size, config, surface, mandelbrot_uniform,
                         mandelbrot_buffer, redraw_requested >>

\* mutant: the aspect ratio is computed as height / width
resize_inverted(new_size, done) ==
    IF new_size.width > 0 /\ new_size.height > 0
    THEN /\ size' = new_size
         /\ config' = [config EXCEPT !.width = new_size.width,
                                     !.height = new_size.height]
         /\ surface' = config'
         /\ mandelbrot_uniform' =
                [mandelbrot_uniform EXCEPT
                    !.aspect_ratio = F64Div(U32ToF64(new_size.height),
                                            U32ToF64(new_size.width))]
         /\ update_uniform(done \o << "configure" >>)
    ELSE /\ calls' = done
         /\ UNCHANGED << size, config, surface, mandelbrot_uniform,
                         mandelbrot_buffer, redraw_requested >>

\* mutant: the guard is dropped
resize_unguarded(new_size, done) ==
    /\ size' = new_size
    /\ config' = [config EXCEPT !.width = new_size.width,
                                !.height = new_size.height]
    /\ surface' = config'
    /\ mandelbrot_uniform' =
           [mandelbrot_uniform EXCEPT
               !.aspect_ratio = F64Div(U32ToF64(new_size.width),
                                       U32ToF64(new_size.height))]
    /\ update_uniform(done \o << "configure" >>)

\* mutant: the guard asks for one positive dimension only
resize_either(new_size, done) ==
    IF new_size.width > 0 \/ new_size.height > 0
    THEN resize_unguarded(new_size, done)
    ELSE /\ calls' = done
         /\ UNCHANGED << size, config, surface, mandelbrot_uniform,
                         mandelbrot_buffer, redraw_requested >>

resize(new_size, done) ==
    IF new_size.width > 0 /\ new_size.height > 0
    THEN /\ size' = new_size
         /\ config' = [config EXCEPT !.width = new_size.width,
                                     !.height = new_size.height]
         /\ surface' = config'
         /\ mandelbrot_uniform' =
                [mandelbrot_uniform EXCEPT
                    !.aspect_ratio = F64Div(U32ToF64(new_size.width),
                                            U32ToF64(new_size.height))]
         /\ update_uniform(done \o << "configure" >>)
    ELSE /\ calls' = done
         /\ UNCHANGED << size, config, surface, mandelbrot_uniform,
                         mandelbrot_buffer, redraw_requested >>

(***************************************************************************)
(* State::input, one definition per match arm, and the view transforms.    *)
(***************************************************************************)
\* mutant: the horizontal move loses the sign of the pixel delta
PanByUnsigned(u, dx, dy) ==
    [u EXCEPT
        !.min_x = F64Sub(u.min_x,
                    F64Mul(F64Mul(F64Div([dx EXCEPT !.neg = FALSE],
                                         U32ToF64(size.width)), u.height),
                           u.aspect_ratio)),
        !.min_y = F64Add(u.min_y,
                    F64Mul(F64Div(dy, U32ToF64(size.height)), u.height))]

\* lines 239-240: the view moved by the pixel delta (dx, dy)
PanBy(u, dx, dy) ==
    [u EXCEPT
        !.min_x = F64Sub(u.min_x,
                    F64Mul(F64Mul(F64Div(dx, U32ToF64(size.width)), u.height),
                           u.aspect_ratio)),
        !.min_y = F64Add(u.min_y,
                    F64Mul(F64Div(dy, U32ToF64(size.height)), u.height))]

\* lines 230-240: the view after a pointer move to `position` while dragging
Pan(u, position) ==
    PanBy(u, F64Sub(position.x, cursor_pos.x), F64Sub(position.y, cursor_pos.y))

\* lines 247-250
ScrollAmount(delta) ==
    IF delta.unit = "LineDelta" THEN F32ToF64(delta.y) ELSE delta.y

\* line 251
ZoomScale(delta) ==
    F64Sub(F64FromInt(1), F64Div(ScrollAmount(delta), F64FromInt(ZoomDivisor)))

\* line 252
CursorU == F64Div(cursor_pos.x, U32ToF64(size.width))

\* line 253
CursorV == F64Sub(F64FromInt(1), F64Div(cursor_pos.y, U32ToF64(size.height)))

\* mutant: the horizontal shift forgets the aspect ratio
ZoomShiftNoAspect(u, uu, v, height_diff, scale) ==
    [u EXCEPT
        !.min_x = F64Sub(u.min_x, F64Mul(uu, height_diff)),
        !.min_y = F64Sub(u.min_y, F64Mul(v, height_diff)),
        !.height = F64Mul(u.height, scale)]

\* lines 263-265
ZoomShift(u, uu, v, height_diff, scale) ==
    [u EXCEPT
        !.min_x = F64Sub(u.min_x, F64Mul(F64Mul(uu, height_diff), u.aspect_ratio)),
        !.min_y = F64Sub(u.min_y, F64Mul(v, height_diff)),
        !.height = F64Mul(u.height, scale)]

\* lines 261-262: new_height - height
HeightDiff(u, scale) == F64Sub(F64Mul(u.height, scale), u.height)

\* lines 251-265
ZoomScaled(u, scale) == ZoomShift(u, CursorU, CursorV, HeightDiff(u, scale), scale)

\* lines 247-265: the view after a wheel event
Zoom(u, delta) == ZoomScaled(u, ZoomScale(delta))

\* lines 281-285
IterationsDown(n) == U32Max(U32SaturatingSub(n, BFromInt(IterStep)), BFromInt(IterStep))

\* the inner match of the closure falls to `_ => {}`
NoDefaultHandling ==
    /\ calls' = << >>
    /\ UNCHANGED << mandelbrot_uniform, mandelbrot_buffer, config, surface, size,
                    redraw_requested, control, view_ops >>

CursorLeft ==
    /\ control = "running"
    /\ event' = [kind |-> "CursorLeft"]
    /\ dragging' = FALSE
    /\ consumed' = << FALSE >>
    /\ UNCHANGED cursor_pos
    /\ NoDefaultHandling

\* mutant: every mouse button drives the drag flag
MouseInputAnyButton(state, button) ==
    /\ control = "running"
    /\ event' = [kind |-> "MouseInput", state |-> state, button |-> button]
    /\ dragging' = (state = "Pressed")
    /\ consumed' = << FALSE >>
    /\ UNCHANGED cursor_pos
    /\ NoDefaultHandling

MouseInput(state, button) ==
    /\ control = "running"
    /\ event' = [kind |-> "MouseInput", state |-> state, button |-> button]
    /\ dragging' = IF button = "Left" THEN state = "Pressed" ELSE dragging
    /\ consumed' = << FALSE >>
    /\ UNCHANGED cursor_pos
    /\ NoDefaultHandling

\* mutant: the position is recorded only by a move that pans
CursorMovedInDrag(position) ==
    /\ control = "running"
    /\ event' = [kind |-> "CursorMoved", position |-> position]
    /\ IF dragging
       THEN /\ view_ops < MaxViewOps
            /\ view_ops' = view_ops + 1
            /\ mandelbrot_uniform' = Pan(mandelbrot_uniform, position)
            /\ update_uniform(<< >>)
            /\ cursor_pos' = position
       ELSE /\ calls' = << >>
            /\ UNCHANGED << mandelbrot_uniform, mandelbrot_buffer,
                            redraw_requested, view_ops, cursor_pos >>
    /\ consumed' = << FALSE >>
    /\ UNCHANGED << dragging, config, surface, size, control >>

CursorMoved(position) ==
    /\ control = "running"
    /\ event' = [kind |-> "CursorMoved", position |-> position]
    /\ IF dragging
       THEN /\ view_ops < MaxViewOps
            /\ view_ops' = view_ops + 1
            /\ mandelbrot_uniform' = Pan(mandelbrot_uniform, position)
            /\ update_uniform(<< >>)
       ELSE /\ calls' = << >>
            /\ UNCHANGED << mandelbrot_uniform, mandelbrot_buffer,
                            redraw_requested, view_ops >>
    /\ cursor_pos' = position
    /\ consumed' = << FALSE >>
    /\ UNCHANGED << dragging, config, surface, size, control >>

\* mutant: the buffer is written before the height is scaled
MouseWheelEarlyPush(delta) ==
    /\ control = "running"
    /\ view_ops < MaxViewOps
    /\ view_ops' = view_ops + 1
    /\ event' = [kind |-> "MouseWheel", delta |-> delta]
    /\ mandelbrot_uniform' = Zoom(mandelbrot_uniform, delta)
    /\ mandelbrot_buffer' =
           [mandelbrot_uniform' EXCEPT !.height = mandelbrot_uniform.height]
    /\ redraw_requested' = TRUE
    /\ calls' = << "write_buffer", "request_redraw" >>
    /\ consumed' = << TRUE >>
    /\ UNCHANGED << cursor_pos, dragging, config, surface, size, control >>

MouseWheel(delta) ==
    /\ control = "running"
    /\ view_ops < MaxViewOps
    /\ view_ops' = view_ops + 1
    /\ event' = [kind |-> "MouseWheel", delta |-> delta]
    /\ mandelbrot_uniform' = Zoom(mandelbrot_uniform, delta)
    /\ update_uniform(<< >>)
    /\ consumed' = << TRUE >>
    /\ UNCHANGED << cursor_pos, dragging, config, surface, size, control >>

\* lines 269-290, Arrow-Up without overflow and Arrow-Down
ArrowKey(key, repeat) ==
    /\ control = "running"
    /\ key = "ArrowUp" =>
           ~U32AddOverflows(mandelbrot_uniform.max_iterations, BFromInt(IterStep))
    /\ event' = [kind |-> "KeyboardInput", state |-> "Pressed", key |-> key,
                 repeat |-> repeat]
    /\ mandelbrot_uniform' =
           [mandelbrot_uniform EXCEPT !.max_iterations =
               IF key = "ArrowUp"
               THEN BAdd(mandelbrot_uniform.max_iterations, BFromInt(IterStep))
               ELSE IterationsDown(mandelbrot_uniform.max_iterations)]
    /\ update_uniform(<< "dbg" >>)
    /\ consumed' = << TRUE >>
    /\ view_ops < MaxViewOps
    /\ view_ops' = view_ops + 1
    /\ UNCHANGED << cursor_pos, dragging, config, surface, size, control >>

\* line 279 when the sum does not fit in a u32, built without overflow checks
\* (the release profile): the addition wraps
ArrowUpWraps(repeat) ==
    /\ control = "running"
    /\ U32AddOverflows(mandelbrot_uniform.max_iterations, BFromInt(IterStep))
    /\ event' = [kind |-> "KeyboardInput", state |-> "Pressed", key |-> "ArrowUp",
                 repeat |-> repeat]
    /\ mandelbrot_uniform' =
           [mandelbrot_uniform EXCEPT !.max_iterations =
               U32WrappingAdd(mandelbrot_uniform.max_iterations, BFromInt(IterStep))]
    /\ update_uniform(<< "dbg" >>)
    /\ consumed' = << TRUE >>
    /\ view_ops < MaxViewOps
    /\ view_ops' = view_ops + 1
    /\ UNCHANGED << cursor_pos, dragging, config, surface, size, control >>

\* line 279 when the sum does not fit in a u32, built with overflow checks (the
\* dev profile): the addition panics inside the event-loop closure
ArrowUpPanics(repeat) ==
    /\ control = "running"
    /\ U32AddOverflows(mandelbrot_uniform.max_iterations, BFromInt(IterStep))
    /\ event' = [kind |-> "KeyboardInput", state |-> "Pressed", key |-> "ArrowUp",
                 repeat |-> repeat]
    /\ control' = "panicked"
    /\ consumed' = << >>
    /\ calls' = << >>
    /\ UNCHANGED << mandelbrot_uniform, mandelbrot_buffer, config, surface, size,
                    cursor_pos, dragging, redraw_requested, view_ops >>

\* mutant: Escape is ignored while a drag is in progress
OtherKeyUnlessDragging(state, key, repeat) ==
    /\ control = "running"
    /\ ~(state = "Pressed" /\ key \in {"ArrowUp", "ArrowDown"})
    /\ event' = [kind |-> "KeyboardInput", state |-> state, key |-> key,
                 repeat |-> repeat]
    /\ consumed' = << FALSE >>
    /\ IF state = "Pressed" /\ key = "Escape" /\ ~dragging
       THEN /\ control' = "exited"
            /\ calls' = << "exit" >>
       ELSE /\ calls' = << >>
            /\ UNCHANGED control
    /\ UNCHANGED << mandelbrot_uniform, mandelbrot_buffer, config, surface, size,
                    cursor_pos, dragging, redraw_requested, view_ops >>

\* any other KeyboardInput: State::input answers false (line 291); the closure
\* exits on a pressed Escape (lines 359-367)
OtherKey(state, key, repeat) ==
    /\ control = "running"
    /\ ~(state = "Pressed" /\ key \in {"ArrowUp", "ArrowDown"})
    /\ event' = [kind |-> "KeyboardInput", state |-> state, key |-> key,
                 repeat |-> repeat]
    /\ consumed' = << FALSE >>
    /\ IF state = "Pressed" /\ key = "Escape"
       THEN /\ control' = "exited"
            /\ calls' = << "exit" >>
       ELSE /\ calls' = << >>
            /\ UNCHANGED control
    /\ UNCHANGED << mandelbrot_uniform, mandelbrot_buffer, config, surface, size,
                    cursor_pos, dragging, redraw_requested, view_ops >>

CloseRequested ==
    /\ control = "running"
    /\ event' = [kind |-> "CloseRequested"]
    /\ consumed' = << FALSE >>
    /\ control' = "exited"
    /\ calls' = << "exit" >>
    /\ UNCHANGED << mandelbrot_uniform, mandelbrot_buffer, config, surface, size,
                    cursor_pos, dragging, redraw_requested, view_ops >>

Resized(physical_size) ==
    /\ control = "running"
    /\ event' = [kind |-> "Resized", size |-> physical_size]
    /\ consumed' = << FALSE >>
    /\ resize(physical_size, << >>)
    /\ IF size' # size
       THEN view_ops < MaxViewOps /\ view_ops' = view_ops + 1
       ELSE UNCHANGED view_ops
    /\ UNCHANGED << cursor_pos, dragging, control >>

(***************************************************************************)
(* State::render and the RedrawRequested arm of the closure.  The outcome  *)
(* of Surface::get_current_texture is the environment's choice.            *)
(***************************************************************************)
\* lines 298-336, 374: a frame is acquired, drawn from the uniform buffer and
\* presented
RedrawOk ==
    /\ control = "running"
    /\ event' = [kind |-> "RedrawRequested", result |-> "Ok"]
    /\ consumed' = << FALSE >>
    /\ redraw_requested' = FALSE
    /\ calls' = << "get_current_texture", "draw", "submit", "present" >>
    /\ UNCHANGED << mandelbrot_uniform, mandelbrot_buffer, config, surface, size,
                    cursor_pos, dragging, control, view_ops >>

\* mutant: a lost surface is treated like any other failure
RedrawErrLostSkipped(e) ==
    /\ control = "running"
    /\ event' = [kind |-> "RedrawRequested", result |-> e]
    /\ consumed' = << FALSE >>
    /\ IF e = "OutOfMemory"
       THEN /\ control' = "exited"
            /\ calls' = << "get_current_texture", "exit" >>
       ELSE /\ calls' = << "get_current_texture", "eprintln" >>
            /\ UNCHANGED control
    /\ redraw_requested' = FALSE
    /\ UNCHANGED << mandelbrot_uniform, mandelbrot_buffer, config, surface, size,
                    cursor_pos, dragging, view_ops >>

\* mutant: running out of memory is treated like any other failure
RedrawErrOomSkipped(e) ==
    /\ control = "running"
    /\ event' = [kind |-> "RedrawRequested", result |-> e]
    /\ consumed' = << FALSE >>
    /\ IF e = "Lost"
       THEN resize(size, << "get_current_texture" >>)
       ELSE /\ calls' = << "get_current_texture", "eprintln" >>
            /\ redraw_requested' = FALSE
            /\ UNCHANGED << mandelbrot_uniform, mandelbrot_buffer, config,
                            surface, size >>
    /\ UNCHANGED << control, cursor_pos, dragging, view_ops >>

\* lines 298, 375-377
RedrawErr(e) ==
    /\ control = "running"
    /\ event' = [kind |-> "RedrawRequested", result |-> e]
    /\ consumed' = << FALSE >>
    /\ CASE e = "Lost" ->
              /\ resize(size, << "get_current_texture" >>)
              /\ UNCHANGED control
         [] e = "OutOfMemory" ->
              /\ control' = "exited"
              /\ calls' = << "get_current_texture", "exit" >>
              /\ redraw_requested' = FALSE
              /\ UNCHANGED << mandelbrot_uniform, mandelbrot_buffer, config,
                              surface, size >>
         [] OTHER ->
              /\ calls' = << "get_current_texture", "eprintln" >>
              /\ redraw_requested' = FALSE
              /\ UNCHANGED << mandelbrot_uniform, mandelbrot_buffer, config,
                              surface, size, control >>
    /\ UNCHANGED << cursor_pos, dragging, view_ops >>

\* a window event no arm names (Focused, Moved, ...): lines 291 and 380
OtherWindowEvent ==
    /\ control = "running"
    /\ event' = [kind |-> "Focused"]
    /\ consumed' = << FALSE >>
    /\ UNCHANGED << cursor_pos, dragging >>
    /\ NoDefaultHandling

\* an event that is no WindowEvent of this window (AboutToWait, ...): line 382
OtherEvent ==
    /\ control = "running"
    /\ event' = [kind |-> "AboutToWait"]
    /\ consumed' = << >>
    /\ UNCHANGED << cursor_pos, dragging >>
    /\ NoDefaultHandling

Next ==
    \/ CursorLeft
    \/ \E c \in MouseClicks : MouseInput(c.state, c.button)
    \/ \E p \in Positions : CursorMoved(p)
    \/ \E d \in WheelDeltas : MouseWheel(d)
    \/ \E k \in ArrowKeys, r \in BOOLEAN : ArrowKey(k, r)
    \/ \E r \in BOOLEAN : ArrowUpWraps(r)
    \/ \E r \in BOOLEAN : ArrowUpPanics(r)
    \/ \E k \in OtherKeys : OtherKey(k.state, k.key, k.repeat)
    \/ CloseRequested
    \/ \E z \in Sizes : Resized(z)
    \/ RedrawOk
    \/ \E e \in SurfaceErrors : RedrawErr(e)
    \/ OtherWindowEvent
    \/ OtherEvent

Spec == Init /\ [][Next]_vars
(***************************************************************************)
(* The render loop with the one fairness winit gives: a requested redraw   *)
(* is delivered.  The user and the window system owe no other event.       *)
(***************************************************************************)
RequestedRedraw ==
    /\ redraw_requested
    /\ (RedrawOk \/ \E e \in SurfaceErrors : RedrawErr(e))

SpecFair == Init /\ [][Next]_vars /\ WF_vars(RequestedRedraw)

(***************************************************************************)
(* Properties.                                                             *)
(***************************************************************************)
Range(f) == {f[i] : i \in DOMAIN f}

InitialHeight == F64FromInt(2)

\* C1: in every reachable state max_iterations is a positive multiple of 128
\* and is not below 128.
C1_IterationBounds ==
    /\ BCmp(mandelbrot_uniform.max_iterations, BFromInt(IterStep)) >= 0
    /\ BDivSmall(mandelbrot_uniform.max_iterations, IterStep).r = 0

\* C2: the viewport height is strictly greater than 0 in every reachable state.
C2_HeightPositive == F64GtZero(mandelbrot_uniform.height)

\* C3: whenever a draw call is submitted, and at the end of every event
\* handler, the GPU uniform buffer holds the current view.
C3_UniformInSync == mandelbrot_buffer = mandelbrot_uniform

\* a frame was drawn after the view had been zoomed
C3_Witness ==
    /\ event = [kind |-> "RedrawRequested", result |-> "Ok"]
    /\ "draw" \in Range(calls)
    /\ mandelbrot_uniform.height # InitialHeight
    /\ mandelbrot_buffer.height = mandelbrot_uniform.height

LeftPress(ev) ==
    ev.kind = "MouseInput" /\ ev.button = "Left" /\ ev.state = "Pressed"

LeftRelease(ev) ==
    ev.kind = "MouseInput" /\ ev.button = "Left" /\ ev.state = "Released"

Panned == event.kind = "CursorMoved" /\ "write_buffer" \in Range(calls)

\* C4: a pan (a pointer move while dragging) and a wheel zoom both report
\* "consumed" (true), while cursor-leave and left-button press/release report
\* "not consumed" (false).
C4_PanAndZoomConsumed ==
    /\ Panned => consumed = << TRUE >>
    /\ event.kind = "MouseWheel" => consumed = << TRUE >>
    /\ event.kind = "CursorLeft" => consumed = << FALSE >>
    /\ (LeftPress(event) \/ LeftRelease(event)) => consumed = << FALSE >>

DragStep ==
    /\ LeftPress(event') => dragging'
    /\ (LeftRelease(event') \/ event'.kind = "CursorLeft") => ~dragging'
    /\ ~(LeftPress(event') \/ LeftRelease(event') \/ event'.kind = "CursorLeft")
           => dragging' = dragging

\* C5: dragging is false initially; a left press sets it, a left release or a
\* cursor-leave clears it, and no other event changes it, so that it is true
\* exactly when the most recent of those three events was a left press.
C5_DragFlag == ~dragging /\ [][DragStep]_vars

\* the flag is still set after an event that is none of the three
C5_Witness ==
    /\ dragging
    /\ event = [kind |-> "MouseInput", state |-> "Pressed", button |-> "Right"]

SurfaceLost(ev) == ev.kind = "RedrawRequested" /\ ev.result = "Lost"

LostStep ==
    SurfaceLost(event') =>
        /\ size' = size
        /\ size.width > 0 /\ size.height > 0
        /\ surface' = [surface EXCEPT !.width = size.width, !.height = size.height]
        /\ "configure" \in Range(calls')
        /\ control' = "running"
        /\ redraw_requested'

\* C6: when frame acquisition reports Lost, the surface is reconfigured at the
\* last known non-zero size, the application does not terminate, and a redraw
\* is scheduled.
C6_LostReconfigures == [][LostStep]_vars

\* a lost surface was reconfigured after the window had been resized
C6_Witness ==
    /\ SurfaceLost(event)
    /\ calls = << "get_current_texture", "configure", "write_buffer",
                  "request_redraw" >>
    /\ surface = [width |-> 640, height |-> 400]
    /\ redraw_requested
    /\ control = "running"

SkippedFrame ==
    /\ event.kind = "RedrawRequested"
    /\ event.result \notin {"Ok", "Lost", "OutOfMemory"}

\* C7: after an acquisition failure that is neither Lost nor OutOfMemory the
\* application keeps running with its state unchanged and the failure heals on
\* the next frame: a later redraw cycle follows the skipped one.
C7_SkippedFrameRetried ==
    /\ [](SkippedFrame => control = "running" /\ C3_UniformInSync)
    /\ SkippedFrame ~> ~SkippedFrame

\* C8: OutOfMemory from frame acquisition terminates the application, and it
\* is the only render outcome that does: after success, Lost or any other
\* failure the application is still running.
C8_OnlyOomTerminates ==
    event.kind = "RedrawRequested" =>
        /\ event.result = "OutOfMemory" =>
               control = "exited" /\ calls = << "get_current_texture", "exit" >>
        /\ event.result # "OutOfMemory" =>
               control = "running" /\ "exit" \notin Range(calls)

\* the application has exited on OutOfMemory
C8_Witness ==
    /\ event = [kind |-> "RedrawRequested", result |-> "OutOfMemory"]
    /\ control = "exited"

ZeroResize(ev) ==
    ev.kind = "Resized" /\ (ev.size.width = 0 \/ ev.size.height = 0)

ZeroResizeStep ==
    ZeroResize(event') =>
        /\ calls' = << >>
        /\ UNCHANGED << mandelbrot_uniform, mandelbrot_buffer, config, surface,
                        size, cursor_pos, dragging, redraw_requested, control >>

\* C9: a resize to a width or a height of 0 is ignored entirely: no state
\* changes, the surface is not reconfigured, nothing is pushed and no redraw
\* is requested.
C9_ZeroResizeIgnored == [][ZeroResizeStep]_vars

\* a zero-width resize arrived after the window had taken another size
C9_Witness ==
    /\ event = [kind |-> "Resized", size |-> [width |-> 0, height |-> 600]]
    /\ size = [width |-> 640, height |-> 400]
    /\ calls = << >>

\* C10: the surface configuration has width > 0 and height > 0 in every
\* reachable state.
C10_SurfaceNonZero ==
    /\ config.width > 0 /\ config.height > 0
    /\ surface.width > 0 /\ surface.height > 0

\* a zero-height resize has been handled and the configuration is unharmed
C10_Witness ==
    /\ event = [kind |-> "Resized", size |-> [width |-> 800, height |-> 0]]
    /\ config.height > 0
    /\ surface.height > 0

RenderStep ==
    event'.kind = "RedrawRequested" =>
        UNCHANGED << mandelbrot_uniform, cursor_pos, dragging >>

\* C11: no render outcome changes the view: after a redraw cycle that
\* succeeds, fails with Lost (and reconfigures at the last known size) or
\* fails otherwise, min_x, min_y, height, aspect_ratio, max_iterations, the
\* cursor position and the drag flag are what they were before it.
C11_RenderKeepsView == [][RenderStep]_vars

\* a lost surface was recovered while dragging a zoomed view
C11_Witness ==
    /\ SurfaceLost(event)
    /\ "configure" \in Range(calls)
    /\ dragging
    /\ mandelbrot_uniform.height # InitialHeight

F64Abs(a) == IF a.k = "nan" THEN a ELSE [a EXCEPT !.neg = FALSE]

\* a <= 0.0 and finite
F64FiniteLeZero(a) == a.k = "fin" /\ ~F64GtZero(a)

\* |a - b| <= bound
F64Within(a, b, bound) == F64FiniteLeZero(F64Sub(F64Abs(F64Sub(a, b)), bound))

\* 2^-40, the relative tolerance of the floating-point comparisons
Tolerance == F64Round(FALSE, << 1 >>, -40, FALSE)

\* the two terms of the plane coordinate under the cursor, section 4.2 of the
\* spec: min_x + u * height * aspect_ratio and min_y + v * height
PlaneOffsetX(u, uu) == F64Mul(F64Mul(uu, u.height), u.aspect_ratio)

PlaneOffsetY(u, v) == F64Mul(v, u.height)

PlaneX(u, uu) == F64Add(u.min_x, PlaneOffsetX(u, uu))

PlaneY(u, v) == F64Add(u.min_y, PlaneOffsetY(u, v))

\* the size of the terms a plane coordinate is summed from
PlaneScaleX(u, uu) == F64Add(F64Abs(u.min_x), F64Abs(PlaneOffsetX(u, uu)))

PlaneScaleY(u, v) == F64Add(F64Abs(u.min_y), F64Abs(PlaneOffsetY(u, v)))

SamePlaneX(u, w, uu) ==
    F64Within(PlaneX(u, uu), PlaneX(w, uu),
              F64Mul(Tolerance, F64Add(PlaneScaleX(u, uu), PlaneScaleX(w, uu))))

SamePlaneY(u, w, v) ==
    F64Within(PlaneY(u, v), PlaneY(w, v),
              F64Mul(Tolerance, F64Add(PlaneScaleY(u, v), PlaneScaleY(w, v))))

ZoomStep ==
    event'.kind = "MouseWheel" =>
        /\ SamePlaneX(mandelbrot_uniform, mandelbrot_uniform', CursorU)
        /\ SamePlaneY(mandelbrot_uniform, mandelbrot_uniform', CursorV)

\* C12: the plane point under the cursor, (min_x + u * height * aspect_ratio,
\* min_y + v * height) with u = px / W and v = 1 - py / H, is the same before
\* and after a wheel zoom, within a relative tolerance of 2^-40 of the terms
\* it is summed from.
C12_ZoomFixedPoint == [][ZoomStep]_vars

\* a zoom about the middle of the window moved the origin and the height
C12_Witness ==
    /\ event.kind = "MouseWheel"
    /\ cursor_pos = [x |-> F64FromInt(400), y |-> F64FromInt(300)]
    /\ mandelbrot_uniform.height # InitialHeight
    /\ mandelbrot_uniform.min_x # F64FromInt(-2)
    /\ mandelbrot_uniform.min_y # F64FromInt(-1)

\* line 230-240 for the pointer move that follows one from `back` to `from` and
\* returns to `back`: the view w moved by the pixel delta back - from
PanBack(w, from, back) ==
    PanBy(w, F64Sub(back.x, from.x), F64Sub(back.y, from.y))

RestoredExactly(u, w) == w.min_x = u.min_x /\ w.min_y = u.min_y

\* w is u up to the rounding of the two moves through the view `mid`
RestoredWithin(u, mid, w) ==
    /\ F64Within(w.min_x, u.min_x,
                 F64Mul(Tolerance, F64Add(F64Abs(u.min_x), F64Abs(mid.min_x))))
    /\ F64Within(w.min_y, u.min_y,
                 F64Mul(Tolerance, F64Add(F64Abs(u.min_y), F64Abs(mid.min_y))))
    /\ w.height = u.height
    /\ w.aspect_ratio = u.aspect_ratio

PanStepExact ==
    event'.kind = "CursorMoved" /\ dragging =>
        RestoredExactly(mandelbrot_uniform,
                        PanBack(mandelbrot_uniform', cursor_pos', cursor_pos))

PanStepWithin ==
    event'.kind = "CursorMoved" /\ dragging =>
        RestoredWithin(mandelbrot_uniform, mandelbrot_uniform',
                       PanBack(mandelbrot_uniform', cursor_pos', cursor_pos))

\* C13: while dragging, a pointer move by (dx, dy) followed by one by
\* (-dx, -dy), with size, height and aspect_ratio unchanged in between,
\* restores min_x and min_y to their values before the first move.
C13_PanRestoresExactly == [][PanStepExact]_vars

\* C13 amended: the two moves restore min_x and min_y up to floating-point
\* rounding, within a relative tolerance of 2^-40 of the origin before and
\* between the moves, and leave height and aspect_ratio as they were.
C13_PanRestoresWithinRounding == [][PanStepWithin]_vars

\* the initial view was dragged from (0, 0) to (400, 300) and back: min_x is
\* one unit in the last place away from -2.0
C13_Witness ==
    /\ event = [kind |-> "CursorMoved",
                position |-> [x |-> F64FromInt(0), y |-> F64FromInt(0)]]
    /\ Panned
    /\ dragging
    /\ view_ops = 2
    /\ mandelbrot_uniform.height = InitialHeight
    /\ mandelbrot_uniform.min_x # F64FromInt(-2)
    /\ F64Within(mandelbrot_uniform.min_x, F64FromInt(-2), Tolerance)
    /\ mandelbrot_uniform.min_y = F64FromInt(-1)

ArrowUpPress(ev) ==
    ev.kind = "KeyboardInput" /\ ev.state = "Pressed" /\ ev.key = "ArrowUp"

ArrowUpStep ==
    ArrowUpPress(event') =>
        /\ control' = "running"
        /\ mandelbrot_uniform'.max_iterations =
               BAdd(mandelbrot_uniform.max_iterations, BFromInt(IterStep))

\* C14: every Arrow-Up press sets max_iterations to its previous value plus
\* 128, for every reachable previous value: the increase never stops, fails or
\* wraps.
C14_ArrowUpAdds == [][ArrowUpStep]_vars

NonZeroResize(ev) ==
    ev.kind = "Resized" /\ ev.size.width > 0 /\ ev.size.height > 0

ResizeStep ==
    NonZeroResize(event') =>
        /\ mandelbrot_uniform' =
               [mandelbrot_uniform EXCEPT
                   !.aspect_ratio = F64Div(U32ToF64(event'.size.width),
                                           U32ToF64(event'.size.height))]
        /\ size' = event'.size
        /\ config' = [width |-> event'.size.width, height |-> event'.size.height]
        /\ surface' = config'
        /\ mandelbrot_buffer' = mandelbrot_uniform'
        /\ "configure" \in Range(calls')
        /\ "write_buffer" \in Range(calls')

\* C15: a resize to (w, h) with w > 0 and h > 0 sets aspect_ratio to w / h
\* (the binary64 quotient), records (w, h) as the last known window size and
\* as the surface configuration size, pushes the uniform, and leaves min_x,
\* min_y, height and max_iterations unchanged.
C15_ResizeEffects == [][ResizeStep]_vars

\* a zoomed view was resized to 640x400: the aspect ratio is 1.6
C15_Witness ==
    /\ event = [kind |-> "Resized", size |-> [width |-> 640, height |-> 400]]
    /\ size = [width |-> 640, height |-> 400]
    /\ mandelbrot_uniform.height # InitialHeight
    /\ F64Mul(mandelbrot_uniform.aspect_ratio, F64FromInt(5)) = F64FromInt(8)
    /\ mandelbrot_buffer.aspect_ratio = mandelbrot_uniform.aspect_ratio

Count(f, x) == Cardinality({i \in DOMAIN f : f[i] = x})

\* the calls of one handler, with its pushes: each write_buffer is followed at
\* once by one request_redraw, and there is no other request_redraw
PushesPaired(f) ==
    /\ Count(f, "request_redraw") = Count(f, "write_buffer")
    /\ \A i \in DOMAIN f :
           f[i] = "write_buffer" => i < Len(f) /\ f[i + 1] = "request_redraw"

PushStep ==
    /\ Count(calls', "write_buffer") <= 1
    /\ PushesPaired(calls')
    /\ "write_buffer" \in Range(calls') =>
           /\ mandelbrot_buffer' = mandelbrot_uniform'
           /\ redraw_requested'
           /\ "draw" \notin Range(calls')
    /\ "write_buffer" \notin Range(calls') =>
           /\ mandelbrot_buffer' = mandelbrot_buffer
           /\ mandelbrot_uniform' = mandelbrot_uniform

\* C16: a push happens only after the view mutation that triggers it is
\* complete, so the buffer holds the whole new view and never a mix of old and
\* new fields; each push schedules exactly one redraw request and draws
\* nothing; no handler pushes more than once, and a handler that does not push
\* changes neither the view nor the buffer.
C16_PushAfterMutation == [][PushStep]_vars

\* a zoom about the middle of the window changed origin and height and pushed
\* them together, once
C16_Witness ==
    /\ event.kind = "MouseWheel"
    /\ calls = << "write_buffer", "request_redraw" >>
    /\ mandelbrot_buffer.height # InitialHeight
    /\ mandelbrot_buffer.min_x # F64FromInt(-2)
    /\ mandelbrot_buffer = mandelbrot_uniform
    /\ redraw_requested

EscapePress(ev) ==
    ev.kind = "KeyboardInput" /\ ev.state = "Pressed" /\ ev.key = "Escape"

TerminateStep ==
    /\ (event'.kind = "CloseRequested" \/ EscapePress(event')) =>
           /\ consumed' = << FALSE >>
           /\ control' = "exited"
           /\ calls' = << "exit" >>
    /\ event'.kind \in {"Resized", "RedrawRequested"} => consumed' = << FALSE >>
    /\ consumed' = << TRUE >> =>
           /\ control' = control
           /\ Range(calls') \cap {"exit", "configure", "get_current_texture"} = {}
           /\ UNCHANGED << size, config, surface >>

\* the event loop takes both terminating events in this state
TerminationOffered ==
    control = "running" =>
        /\ ENABLED CloseRequested
        /\ \A r \in BOOLEAN : ENABLED OtherKey("Pressed", "Escape", r)

\* C17: in every reachable state in which the application runs, an Escape
\* press and a window-close request are handled and terminate it; these
\* events, like resize and redraw requests, are never reported consumed, and
\* an event reported consumed never reaches the terminate, resize or redraw
\* handling.
C17_EscapeAndCloseTerminate == []TerminationOffered /\ [][TerminateStep]_vars

\* Escape ended the application in the middle of a drag of a zoomed view
C17_Witness ==
    /\ EscapePress(event)
    /\ control = "exited"
    /\ dragging
    /\ mandelbrot_uniform.height # InitialHeight

ArrowEvent(ev) == ev.kind = "KeyboardInput" /\ ev.key \in ArrowKeys

HeldKeyStep ==
    /\ ArrowEvent(event') /\ event'.state = "Released" =>
           /\ consumed' = << FALSE >>
           /\ calls' = << >>
           /\ UNCHANGED << mandelbrot_uniform, mandelbrot_buffer >>
    /\ ArrowEvent(event') /\ event'.state = "Pressed" /\ event'.repeat =>
           mandelbrot_uniform'.max_iterations = mandelbrot_uniform.max_iterations

\* C18: iteration changes are edge-triggered on press: a Released event for
\* an arrow key changes nothing and is not consumed, and the auto-repeat
\* Pressed events of a key held down change nothing either, so that one
\* physical press changes max_iterations by one step of 128.
C18_EdgeTriggered == [][HeldKeyStep]_vars

PointerStep ==
    /\ event'.kind = "CursorMoved" =>
           /\ cursor_pos' = event'.position
           /\ dragging' = dragging
           /\ IF dragging
              THEN /\ mandelbrot_uniform' = Pan(mandelbrot_uniform, event'.position)
                   /\ mandelbrot_buffer' = mandelbrot_uniform'
                   /\ calls' = << "write_buffer", "request_redraw" >>
              ELSE /\ calls' = << >>
                   /\ UNCHANGED << mandelbrot_uniform, mandelbrot_buffer,
                                   redraw_requested >>
    /\ event'.kind # "CursorMoved" => cursor_pos' = cursor_pos

\* C19: a pointer move pans only while dragging: when dragging is false it
\* leaves the view unchanged and makes no push and no redraw request; in both
\* cases it records the event's position as the cursor position, and no other
\* event changes that position, so the next pan and the next zoom use the
\* position of the most recent pointer move.
C19_PointerMove == [][PointerStep]_vars

\* the pointer moved to (400, 300) with no button down: only the cursor changed
C19_Witness ==
    /\ event = [kind |-> "CursorMoved",
                position |-> [x |-> F64FromInt(400), y |-> F64FromInt(300)]]
    /\ ~dragging
    /\ cursor_pos = event.position
    /\ calls = << >>
    /\ mandelbrot_uniform.min_x = F64FromInt(-2)
    /\ ~redraw_requested

SizeConfigAspect ==
    /\ size.width = config.width
    /\ size.height = config.height
    /\ surface = config
    /\ mandelbrot_uniform.aspect_ratio =
           F64Div(U32ToF64(config.width), U32ToF64(config.height))

LostKeepsAspect ==
    SurfaceLost(event') =>
        /\ "configure" \in Range(calls')
        /\ mandelbrot_uniform'.aspect_ratio = mandelbrot_uniform.aspect_ratio

\* C20: in every reachable state the last known window size equals the
\* surface configuration's width and height and aspect_ratio is that width
\* divided by that height; so the Lost recovery, which re-runs the resize
\* handler with the last known size, reconfigures the surface without
\* changing aspect_ratio.
C20_SizeConfigAspect == []SizeConfigAspect /\ [][LostKeepsAspect]_vars

\* a surface lost after a resize to 640x400 was reconfigured at 640x400 with
\* the aspect ratio still 1.6
C20_Witness ==
    /\ SurfaceLost(event)
    /\ size = [width |-> 640, height |-> 400]
    /\ config = size
    /\ F64Mul(mandelbrot_uniform.aspect_ratio, F64FromInt(5)) = F64FromInt(8)

====
